---- MODULE Spec2Model ----
(***************************************************************************)
(* Model of the resumable breadth-first crawler of flograph                *)
(* (download_util.crawl and the crawl_* helpers of db.py).                 *)
(*                                                                         *)
(* The persisted tables crawler_state, crawl_queue and crawl_seen are the  *)
(* db* variables; the locals of crawl() are the variables that carry the   *)
(* names they have in the source.  One invocation of crawl is Start        *)
(* (lines 245-319), followed by the iterations of the main loop.           *)
(* SpecAllSucceed is the crawler without failing fetches and with fair     *)
(* progress of the main loop; SpecCrash lets the process stop in the loop. *)
(*                                                                         *)
(* The other components have their own variables and specification:        *)
(* SpecIngest (download_matches / update_db), SpecTracker (RequestTracker),*)
(* SpecWeight (normalize_weight_label), SpecGlicko (one step of            *)
(* run_glicko) and SpecPersist (persist_ratings).  Each specification      *)
(* leaves the variables of the other components at rest.                   *)
(***************************************************************************)
EXTENDS Integers, Sequences, FiniteSets, TLC

\* ------------------------------------------------------------------ bounds
MaxRuns == 3
MaxDepth == 3

Wrestlers == {"S", "A", "B", "C"}
Seeds == {"S", "A"}
Depths == 0..MaxDepth

NoDepth == -1

\* Opponent graphs the fetches can answer with: graph[w] is the opponent set
\* download_matches(w) returns.  Fixture is the directed fixture of the
\* end-to-end scenarios; Chain is symmetric (each bout lists both wrestlers),
\* so the seed is found again as an opponent of its opponents; Line is a
\* directed path through all four wrestlers.
Fixture == [w \in Wrestlers |->
              CASE w = "S" -> {"A", "B"}
                [] w = "A" -> {"C"}
                [] OTHER   -> {}]

Chain == [w \in Wrestlers |->
              CASE w = "S" -> {"A"}
                [] w = "A" -> {"S", "B"}
                [] w = "B" -> {"A", "C"}
                [] OTHER   -> {"B"}]

Line == [w \in Wrestlers |->
              CASE w = "S" -> {"A"}
                [] w = "A" -> {"B"}
                [] w = "B" -> {"C"}
                [] OTHER   -> {}]

Graphs == {Fixture, Chain, Line}

VARIABLES
  graph,        \* the opponent graph served by the upstream API
  dbState,      \* crawler_state row
  dbQueue,      \* crawl_queue rows <<wrestler_id, depth>> in enqueued_at order
  dbSeen,       \* crawl_seen.depth per wrestler, NoDepth when there is no row
  dbProcessed,  \* wrestlers whose crawl_seen row has processed_at set
  seed_id, depth, reset,        \* arguments of the current invocation
  queue, queued_ids, seen, depths, processed,   \* locals of crawl()
  pending,      \* opponents of the current wrestler still to iterate
  pc,           \* "idle", "loop", "expand", "done", "aborted", "crashed"
  atEntry,      \* TRUE exactly when the main loop has not yet iterated
  runs,         \* number of invocations so far
  fetches,      \* download_matches calls per wrestler in this invocation
  fetchDepth,   \* depth at which a wrestler was fetched in this invocation
  startEmpty,   \* the invocation started from empty crawler tables
  startUnproc,  \* unprocessed crawl_seen rows when the invocation started
  prev          \* how the previous invocation started and ended

dbVars == <<dbState, dbQueue, dbSeen, dbProcessed>>
argVars == <<seed_id, depth, reset>>
memVars == <<queue, queued_ids, seen, depths, processed, pending>>
histVars == <<runs, fetches, fetchDepth, startEmpty, startUnproc, prev>>
crawlVars == <<graph, dbVars, argVars, memVars, pc, atEntry, histVars>>

\* ---- match ingestion: download_matches / update_db and the tables they write
VARIABLES
  tables,       \* rows of wrestlers, teams, events, matches and fetched
  filt,         \* allowed_weights, start_date, end_date of the downloads
  dpc,          \* download_matches: "idle", "first", "next", "done", "failed"
  dlId,         \* the wrestler download_matches was called for
  opponents,    \* the opponent set download_matches has collected
  derr,         \* what the raised error message carries
  reqs,         \* requests.get calls made so far
  dlReqs,       \* requests.get calls of the current download
  marked,       \* mark_fetch was called in the current download
  lastApp,      \* the latest application of update_db
  prevApp,      \* the application of update_db before it
  cur,          \* download_matches: the URL of the latest request
  links_next,   \* data["links"]["next"] of the latest response, NoLink if absent
  dlPages       \* update_db calls of the current download

ingestVars == <<tables, filt, dpc, dlId, opponents, derr, reqs, dlReqs, marked, lastApp, prevApp,
                cur, links_next, dlPages>>

\* ---- RequestTracker
VARIABLES
  now,            \* time.time(), in seconds
  request_times,  \* RequestTracker.request_times
  sent            \* the time of every outbound request so far

trackerVars == <<now, request_times, sent>>

\* ---- rating.normalize_weight_label
VARIABLES
  raw_label,    \* the argument, a string as the sequence of its characters
  normalized,   \* the returned label, [some |-> FALSE, ...] for None
  wpc           \* "call" before the call, "return" after it

weightVars == <<raw_label, normalized, wpc>>

\* ---- rating.run_glicko, one (period, weight class) step
VARIABLES
  gMatches,     \* the matches of the step, in list order, as <<winner, loser>>
  states,       \* weight_states
  per_player,   \* per_player: the pairings <<opponent, score>> of each wrestler
  snapshots,    \* snapshots
  updates,      \* updates
  gpc,          \* "pair", "snapshot", "update", "commit", "done"
  pre           \* weight_states when the step began

glickoVars == <<gMatches, states, per_player, snapshots, updates, gpc, pre>>

\* ---- rating.persist_ratings
VARIABLES
  ratingsT,     \* the committed rows of the ratings table
  txn,          \* the ratings rows as the open transaction sees them
  payload,      \* the rows built from payload["weight_classes"]
  todo,         \* rows executemany has still to insert
  ppc,          \* "call", "insert", "committed", "failed"
  before        \* the committed rows when persist_ratings was called

persistVars == <<ratingsT, txn, payload, todo, ppc, before>>

restVars == <<ingestVars, trackerVars, weightVars, glickoVars, persistVars>>
notIngest == <<crawlVars, trackerVars, weightVars, glickoVars, persistVars>>
notTracker == <<crawlVars, ingestVars, weightVars, glickoVars, persistVars>>
notWeight == <<crawlVars, ingestVars, trackerVars, glickoVars, persistVars>>
notGlicko == <<crawlVars, ingestVars, trackerVars, weightVars, persistVars>>
notPersist == <<crawlVars, ingestVars, trackerVars, weightVars, glickoVars>>
vars == <<crawlVars, restVars>>

\* ------------------------------------------------------------ Store helpers
NoState == [present |-> FALSE, seed_id |-> "", depth_limit |-> 0]
EmptySeen == [w \in Wrestlers |-> NoDepth]

Ids(q) == {q[i][1] : i \in 1..Len(q)}

\* db.upsert_crawler_state
UpsertCrawlerState(s, d) == [present |-> TRUE, seed_id |-> s, depth_limit |-> d]

\* mutant of ClearCrawlerState: crawl_seen is left as it was
ClearStateAndQueueOnly ==
  [state |-> NoState, queue |-> <<>>, seenRows |-> dbSeen, processedRows |-> dbProcessed]

\* db.clear_crawler_state: crawler_state, crawl_queue and crawl_seen emptied
ClearCrawlerState ==
  [state |-> NoState, queue |-> <<>>, seenRows |-> EmptySeen, processedRows |-> {}]

\* db.remove_from_queue
RemoveFromQueue(q, w) == SelectSeq(q, LAMBDA e : e[1] # w)

\* db.enqueue_wrestler: upsert, enqueued_at refreshed so the row sorts last
EnqueueWrestler(q, w, d) == Append(RemoveFromQueue(q, w), <<w, d>>)

RECURSIVE EnqueueAll(_, _)
EnqueueAll(q, rows) ==
  IF rows = <<>> THEN q
  ELSE EnqueueAll(EnqueueWrestler(q, Head(rows)[1], Head(rows)[2]), Tail(rows))

\* mutant of GetQueueItems: the persisted frontier is not read back
GetNoQueueItems(q) == <<>>

\* db.get_queue_items: the rows ORDER BY enqueued_at ASC, which is the order
\* dbQueue keeps them in (an upsert refreshes enqueued_at)
GetQueueItems(q) == q

\* db.record_seen_wrestler: insert, or keep the minimum depth
RecordSeenWrestler(sn, w, d) ==
  [sn EXCEPT ![w] = IF @ = NoDepth THEN d ELSE IF d < @ THEN d ELSE @]

\* db.mark_wrestler_processed: an UPDATE, so a no-op without a crawl_seen row
MarkWrestlerProcessed(pr, sn, w) == IF sn[w] # NoDepth THEN pr \cup {w} ELSE pr

\* db.get_unprocessed_wrestlers(max_depth): rows, before ORDER BY
UnprocessedRows(sn, pr, maxd) ==
  {<<w, sn[w]>> : w \in {x \in Wrestlers : sn[x] # NoDepth /\ x \notin pr /\ sn[x] <= maxd}}

\* every enumeration ORDER BY depth ASC can produce (ties in any order)
RECURSIVE SortedSeqs(_)
SortedSeqs(rows) ==
  IF rows = {} THEN {<<>>}
  ELSE UNION {{<<r>> \o rest : rest \in SortedSeqs(rows \ {r})} :
                r \in {x \in rows : \A y \in rows : x[2] <= y[2]}}

\* ------------------------------------------------------- crawl(): start-up
\* mutant of DiscardSeed: the seed's entries are kept
KeepSeed(set, s) == set

\* seen.discard(seed_id), processed.discard(seed_id), queued_ids.discard(seed_id)
DiscardSeed(set, s) == set \ {s}

\* depths.pop(seed_id, None)
PopSeedDepth(dp, s) == [dp EXCEPT ![s] = NoDepth]

\* mutant of EnsureSeedFront: the seed is appended instead of pushed to the front
EnsureSeedBack(q, s) == SelectSeq(q, LAMBDA e : e[1] # s) \o <<<<s, 0>>>>

\* ensure_seed_front, the in-memory part: drop the seed's entries, seed first
EnsureSeedFront(q, s) == <<<<s, 0>>>> \o SelectSeq(q, LAMBDA e : e[1] # s)

\* mutant of UpgradeKeeps: rows at the previous depth limit are skipped too
UpgradeKeepsDeeper(row, previous_depth, proc, qids) ==
  /\ ~(row[2] <= previous_depth)
  /\ ~(row[1] \in proc \/ row[1] \in qids)

\* the depth-upgrade filter of one enumerated row
UpgradeKeeps(row, previous_depth, proc, qids) ==
  /\ ~(row[2] < previous_depth)
  /\ ~(row[1] \in proc \/ row[1] \in qids)

\* the replenish filter of one enumerated row
ReplenishKeeps(row, proc, qids) == ~(row[1] \in proc \/ row[1] \in qids)

\* mutant of SkipHead: a processed wrestler is not skipped
SkipHeadAtLimit(w, current_depth, d, proc) == current_depth >= d

\* mutant of SkipHead: the depth test is off by one
SkipHeadBeyond(w, current_depth, d, proc) == current_depth > d \/ w \in proc

\* main-loop guards: the head is popped without a fetch
SkipHead(w, current_depth, d, proc) == current_depth >= d \/ w \in proc

\* mutant of PopLeft: the head stays on the deque
PeekLeft(q) == q

\* queue.popleft()
PopLeft(q) == Tail(q)

\* the opponent is appended to the frontier
EnqueueOpponent(next_depth, d) == next_depth <= d

\* ------------------------------------------- the other components at rest
NoId == ""
NoTables == [wrestlers |-> <<>>, teams |-> <<>>, events |-> <<>>, matches |-> <<>>,
             fetched |-> {}]
NoPage == [included |-> <<>>, data |-> <<>>]
NoApp == [valid |-> FALSE, id |-> NoId, page |-> NoPage, opp |-> {},
          before |-> NoTables, after |-> NoTables]
NoError == [status |-> 0, body |-> FALSE, rates |-> FALSE]
NoFilter == [allowed_weights |-> {}, start_date |-> 0, end_date |-> 0]

NoLink == ""

IngestIdle ==
  /\ tables = NoTables
  /\ filt = NoFilter
  /\ dpc = "idle"
  /\ dlId = NoId
  /\ opponents = {}
  /\ derr = NoError
  /\ reqs = 0 /\ dlReqs = 0
  /\ marked = FALSE
  /\ lastApp = NoApp /\ prevApp = NoApp
  /\ cur = NoLink /\ links_next = NoLink /\ dlPages = 0

TrackerIdle == now = 0 /\ request_times = <<>> /\ sent = <<>>

NoLabel == [some |-> FALSE, label |-> <<>>]

WeightIdle == raw_label = <<>> /\ normalized = NoLabel /\ wpc = "call"

GWrestlers == {"A", "B", "C"}
NoGState == [present |-> FALSE, rating |-> 0, rd |-> 0, volatility |-> 0,
             last_period_index |-> 0, last_competed_period |-> -1, matches_played |-> 0]
NoSnapshot == [present |-> FALSE, rating |-> 0, rd |-> 0, volatility |-> 0, mu |-> 0, phi |-> 0]
NoUpdate == [present |-> FALSE, rating |-> 0, rd |-> 0, volatility |-> 0]

GlickoIdle ==
  /\ gMatches = <<>>
  /\ states = [w \in GWrestlers |-> NoGState]
  /\ per_player = [w \in GWrestlers |-> <<>>]
  /\ snapshots = [w \in GWrestlers |-> NoSnapshot]
  /\ updates = [w \in GWrestlers |-> NoUpdate]
  /\ gpc = "pair"
  /\ pre = [w \in GWrestlers |-> NoGState]

PersistIdle ==
  /\ ratingsT = {} /\ txn = {} /\ payload = <<>> /\ todo = <<>>
  /\ ppc = "call" /\ before = {}

RestIdle == IngestIdle /\ TrackerIdle /\ WeightIdle /\ GlickoIdle /\ PersistIdle

\* ----------------------------------------------------------- the crawler
CrawlInit ==
  /\ graph \in Graphs
  /\ dbState = NoState
  /\ dbQueue = <<>>
  /\ dbSeen = EmptySeen
  /\ dbProcessed = {}
  /\ seed_id = "" /\ depth = 0 /\ reset = FALSE
  /\ queue = <<>> /\ queued_ids = {} /\ seen = {} /\ depths = EmptySeen
  /\ processed = {} /\ pending = {}
  /\ pc = "idle"
  /\ atEntry = FALSE
  /\ runs = 0
  /\ fetches = [w \in Wrestlers |-> 0]
  /\ fetchDepth = EmptySeen
  /\ startEmpty = FALSE
  /\ startUnproc = {}
  /\ prev = [valid |-> FALSE, seed |-> "", depth |-> 0, completed |-> FALSE,
             startEmpty |-> FALSE, fetched |-> {}, count |-> 0, failed |-> "",
             queueIds |-> {}, processedRows |-> {}]

Init == CrawlInit /\ RestIdle

Fetched == {w \in Wrestlers : fetches[w] > 0}

RECURSIVE SumOver(_, _)
SumOver(f, S) ==
  IF S = {} THEN 0
  ELSE LET x == CHOOSE y \in S : TRUE IN f[x] + SumOver(f, S \ {x})

FetchCount == SumOver(fetches, Wrestlers)

\* crawl(), lines 245-319: everything before the main loop
Start(s, d, r) ==
  /\ pc \in {"idle", "done", "aborted", "crashed"}
  /\ runs < MaxRuns
  /\ LET cleared == ClearCrawlerState
         st0 == IF r THEN cleared.state ELSE dbState
         q0  == IF r THEN cleared.queue ELSE dbQueue
         sn0 == IF r THEN cleared.seenRows ELSE dbSeen
         pr0 == IF r THEN cleared.processedRows ELSE dbProcessed
         previous_depth == IF st0.present THEN st0.depth_limit ELSE 0
         seed_changed == st0.present /\ st0.seed_id # s
         depth_upgraded == d > previous_depth
         q1 == IF seed_changed THEN <<>> ELSE q0
         queue_items == GetQueueItems(q1)
         qids0 == DiscardSeed(Ids(queue_items), s)
         seen0 == DiscardSeed({w \in Wrestlers : sn0[w] # NoDepth}, s)
         depths0 == PopSeedDepth(sn0, s)
         processed0 == DiscardSeed(pr0, s)
         rows == UnprocessedRows(sn0, pr0, d)
     IN
     \E order \in IF depth_upgraded THEN SortedSeqs(rows) ELSE {<<>>} :
       LET newly == IF depth_upgraded
                    THEN SelectSeq(order, LAMBDA row : UpgradeKeeps(row, previous_depth, processed0, qids0))
                    ELSE <<>>
           q2 == EnqueueAll(q1, newly)
           queue2 == newly \o queue_items
           qids2 == qids0 \cup Ids(newly)
           queue3 == IF seed_changed THEN <<>> ELSE queue2
           qids3 == IF seed_changed THEN {} ELSE qids2
           queue4 == EnsureSeedFront(queue3, s)
           q4 == EnqueueWrestler(q2, s, 0)
           qids4 == qids3 \cup {s}
       IN
       \E order2 \in IF queue4 = <<>> THEN SortedSeqs(rows) ELSE {<<>>} :
         LET replenished == IF queue4 = <<>>
                            THEN SelectSeq(order2, LAMBDA row : ReplenishKeeps(row, processed0, qids4))
                            ELSE <<>>
             seedOnly == queue4 = <<>> /\ replenished = <<>>
             sn5 == IF seedOnly /\ s \notin seen0 THEN RecordSeenWrestler(sn0, s, 0) ELSE sn0
             q5 == IF queue4 # <<>> THEN q4
                   ELSE IF replenished # <<>> THEN EnqueueAll(q4, replenished)
                   ELSE EnqueueWrestler(q4, s, 0)
             queue5 == IF queue4 # <<>> THEN queue4
                       ELSE IF replenished # <<>> THEN queue4 \o replenished
                       ELSE Append(queue4, <<s, 0>>)
         IN
         /\ dbState' = UpsertCrawlerState(s, d)
         /\ dbQueue' = q5
         /\ dbSeen' = sn5
         /\ dbProcessed' = pr0
         /\ seed_id' = s /\ depth' = d /\ reset' = r
         /\ queue' = queue5
         /\ queued_ids' = qids4 \cup Ids(replenished)
         /\ seen' = IF seedOnly THEN seen0 \cup {s} ELSE seen0
         /\ depths' = IF seedOnly /\ s \notin seen0 THEN [depths0 EXCEPT ![s] = 0] ELSE depths0
         /\ processed' = processed0
         /\ pending' = {}
         /\ pc' = "loop"
         /\ atEntry' = TRUE
         /\ runs' = runs + 1
         /\ fetches' = [w \in Wrestlers |-> 0]
         /\ fetchDepth' = EmptySeen
         /\ startEmpty' = (~st0.present /\ q0 = <<>> /\ sn0 = EmptySeen)
         /\ startUnproc' = UnprocessedRows(sn0, pr0, MaxDepth + 2)
         /\ prev' = [valid |-> runs > 0, seed |-> seed_id, depth |-> depth,
                     completed |-> pc = "done", startEmpty |-> startEmpty,
                     fetched |-> Fetched, count |-> FetchCount,
                     failed |-> IF pc = "aborted" THEN Head(queue)[1] ELSE "",
                     queueIds |-> Ids(dbQueue), processedRows |-> dbProcessed]
         /\ UNCHANGED <<restVars, graph>>

\* ------------------------------------------------------ crawl(): main loop
\* lines 357-365: the head is at the depth limit or already processed
LoopSkip ==
  /\ pc = "loop" /\ queue # <<>>
  /\ SkipHead(Head(queue)[1], Head(queue)[2], depth, processed)
  /\ queue' = PopLeft(queue)
  /\ dbQueue' = RemoveFromQueue(dbQueue, Head(queue)[1])
  /\ atEntry' = FALSE
  /\ UNCHANGED <<restVars, graph, dbState, dbSeen, dbProcessed, argVars, queued_ids, seen,
                 depths, processed, pending, pc, histVars>>

\* lines 367-370: download_matches returned; the wrestler is marked processed
FetchOk ==
  /\ pc = "loop" /\ queue # <<>>
  /\ ~SkipHead(Head(queue)[1], Head(queue)[2], depth, processed)
  /\ LET w == Head(queue)[1] IN
       /\ processed' = processed \cup {w}
       /\ dbProcessed' = MarkWrestlerProcessed(dbProcessed, dbSeen, w)
       /\ pending' = graph[w]
       /\ fetches' = [fetches EXCEPT ![w] = @ + 1]
       /\ fetchDepth' = [fetchDepth EXCEPT ![w] = Head(queue)[2]]
  /\ pc' = "expand"
  /\ atEntry' = FALSE
  /\ UNCHANGED <<restVars, graph, dbState, dbQueue, dbSeen, argVars, queue, queued_ids, seen,
                 depths, runs, startEmpty, startUnproc, prev>>

\* lines 209-216, 230-237: a non-200 response, the exception leaves crawl()
FetchFail ==
  /\ pc = "loop" /\ queue # <<>>
  /\ ~SkipHead(Head(queue)[1], Head(queue)[2], depth, processed)
  /\ pc' = "aborted"
  /\ atEntry' = FALSE
  /\ UNCHANGED <<restVars, graph, dbVars, argVars, memVars, histVars>>

\* lines 372-381: one opponent of the fetched wrestler
Expand(o) ==
  /\ pc = "expand" /\ o \in pending
  /\ pending' = pending \ {o}
  /\ LET next_depth == Head(queue)[2] + 1 IN
     IF o \notin seen
     THEN /\ seen' = seen \cup {o}
          /\ depths' = [depths EXCEPT ![o] = next_depth]
          /\ dbSeen' = RecordSeenWrestler(dbSeen, o, next_depth)
          /\ IF EnqueueOpponent(next_depth, depth)
             THEN /\ dbQueue' = EnqueueWrestler(dbQueue, o, next_depth)
                  /\ queue' = Append(queue, <<o, next_depth>>)
             ELSE UNCHANGED <<dbQueue, queue>>
     ELSE UNCHANGED <<seen, depths, dbSeen, dbQueue, queue>>
  /\ UNCHANGED <<restVars, graph, dbState, dbProcessed, argVars, queued_ids, processed, pc,
                 atEntry, histVars>>

\* lines 383-384: the fetched wrestler leaves the frontier
PopHead ==
  /\ pc = "expand" /\ pending = {}
  /\ queue' = PopLeft(queue)
  /\ dbQueue' = RemoveFromQueue(dbQueue, Head(queue)[1])
  /\ pc' = "loop"
  /\ UNCHANGED <<restVars, graph, dbState, dbSeen, dbProcessed, argVars, queued_ids, seen,
                 depths, processed, pending, atEntry, histVars>>

\* lines 346, 386-390: the deque is empty, crawl returns
Return ==
  /\ pc = "loop" /\ queue = <<>>
  /\ pc' = "done"
  /\ atEntry' = FALSE
  /\ UNCHANGED <<restVars, graph, dbVars, argVars, memVars, histVars>>

Next ==
  \/ \E s \in Seeds, d \in Depths, r \in BOOLEAN : Start(s, d, r)
  \/ LoopSkip
  \/ FetchOk
  \/ FetchFail
  \/ \E o \in Wrestlers : Expand(o)
  \/ PopHead
  \/ Return

Spec == Init /\ [][Next]_vars

\* The crawler when every requests.get answers 200: download_matches never
\* raises.  crawl() is sequential code, so whichever statement of the main
\* loop is next does get executed (weak fairness of the loop's steps); when
\* crawl is invoked again is left open.
LoopStep ==
  \/ LoopSkip
  \/ FetchOk
  \/ \E o \in Wrestlers : Expand(o)
  \/ PopHead
  \/ Return

NextAllSucceed ==
  \/ \E s \in Seeds, d \in Depths, r \in BOOLEAN : Start(s, d, r)
  \/ LoopStep

SpecAllSucceed == Init /\ [][NextAllSucceed]_vars /\ WF_vars(LoopStep)

\* The crawler when no fetch fails but the process can stop inside the main
\* loop: between two iterations, after mark_wrestler_processed (line 369) and
\* between two opponents (lines 372-381).  Every db helper commits on its
\* own, so the tables stay as the last completed call left them; the locals
\* are lost, and the next invocation rebuilds them in Start.
Crash ==
  /\ pc \in {"loop", "expand"}
  /\ pc' = "crashed"
  /\ atEntry' = FALSE
  /\ UNCHANGED <<restVars, graph, dbVars, argVars, memVars, histVars>>

NextCrash ==
  \/ NextAllSucceed
  \/ Crash

SpecCrash == Init /\ [][NextCrash]_vars


\* ----------------------------------------------------- reference notions
\* wrestlers within k hops of s in the opponent graph g
RECURSIVE Within(_, _, _)
Within(g, s, k) ==
  IF k < 0 THEN {}
  ELSE IF k = 0 THEN {s}
  ELSE LET p == Within(g, s, k - 1) IN p \cup UNION {g[x] : x \in p}

\* shortest-path distance from s to w, NoDepth when w is unreachable
Dist(g, s, w) ==
  LET N == Cardinality(Wrestlers)
      ks == {k \in 0..N : w \in Within(g, s, k)}
  IN IF ks = {} THEN NoDepth ELSE CHOOSE k \in ks : \A j \in ks : k <= j

SeenRows(sn) == {w \in Wrestlers : sn[w] # NoDepth}

\* the invocation repeats the previous, completed one: same seed, same depth, no reset
SameRerun ==
  /\ prev.valid /\ prev.completed /\ ~reset
  /\ prev.seed = seed_id /\ prev.depth = depth

\* the invocation raises the depth of the previous, completed one
UpgradeRerun ==
  /\ prev.valid /\ prev.completed /\ ~reset
  /\ prev.seed = seed_id /\ prev.depth < depth

\* the invocation follows one that a failed fetch aborted: same seed and depth
ResumeAfterFail ==
  /\ prev.valid /\ prev.failed # "" /\ ~reset
  /\ prev.seed = seed_id /\ prev.depth = depth

\* --------------------------------------------------------------- claims
\* C1: when the main loop is first entered, in every invocation, the deque
\* is non-empty, its head is (seed_id, 0) and seed_id is in neither the
\* in-memory seen set nor the in-memory processed set.
SeedFirst ==
  (pc = "loop" /\ atEntry) =>
     /\ queue # <<>>
     /\ Head(queue) = <<seed_id, 0>>
     /\ seed_id \notin seen
     /\ seed_id \notin processed

\* C1 witness: the loop is entered with the seed processed in crawl_seen and
\* a frontier loaded from crawl_queue behind it.
SeedFirstWitness ==
  /\ pc = "loop" /\ atEntry
  /\ seed_id \in dbProcessed
  /\ Len(queue) > 1
  /\ Head(queue) = <<seed_id, 0>>


\* C2 (as stated): after a completed crawl, a second invocation with the same
\* seed and depth and no reset never calls download_matches.
RerunFetchesNothing == SameRerun => FetchCount = 0

\* C2 (amended): the second invocation fetches the seed again when depth > 0
\* (nothing when depth = 0) and fetches no other wrestler that the first
\* invocation fetched.
RerunFetchesSeedOnlyAgain ==
  (pc = "done" /\ SameRerun) =>
     /\ fetches[seed_id] = (IF depth > 0 THEN 1 ELSE 0)
     /\ (Fetched \cap prev.fetched) \subseteq {seed_id}

\* C2 witness: a repeated invocation has completed after a first one that
\* fetched several wrestlers.
RerunWitness ==
  /\ pc = "done" /\ SameRerun
  /\ Cardinality(prev.fetched) >= 3
  /\ seed_id \in Fetched

\* C3 (as stated): after a completed crawl from empty crawler state the depth
\* map, returned and persisted, holds the seed at depth 0 and every wrestler
\* within depth hops at its shortest-path distance, and nothing else.
SeenIsDistanceMap ==
  (pc = "done" /\ startEmpty) =>
     /\ seen = Within(graph, seed_id, depth)
     /\ \A w \in seen : depths[w] = Dist(graph, seed_id, w)
     /\ \A w \in Wrestlers \ seen : depths[w] = NoDepth
     /\ dbSeen = depths

\* C4 (as stated): after a completed crawl from empty crawler state the
\* returned processed set is the set of wrestlers at distance < depth, and
\* the wrestlers at distance depth are seen but never fetched.
ProcessedIsBelowDepth ==
  (pc = "done" /\ startEmpty) =>
     /\ processed = Within(graph, seed_id, depth - 1)
     /\ \A w \in Wrestlers : Dist(graph, seed_id, w) = depth =>
           w \in seen /\ fetches[w] = 0


\* C5 (as stated): whenever crawl returns, crawl_queue is empty.
QueueEmptyAtReturn == pc = "done" => dbQueue = <<>>

\* C6: a crawl with reset, after a completed crawl from empty crawler state
\* with the same seed and depth, fetches as many wrestlers as that crawl did.
ResetRepeatsFetchCount ==
  (/\ pc = "done" /\ reset
   /\ prev.valid /\ prev.completed /\ prev.startEmpty
   /\ prev.seed = seed_id /\ prev.depth = depth)
  => FetchCount = prev.count

\* C6 witness: such a reset crawl has completed after fetching three wrestlers.
ResetRepeatsWitness ==
  /\ pc = "done" /\ reset
  /\ prev.valid /\ prev.completed /\ prev.startEmpty
  /\ prev.seed = seed_id /\ prev.depth = depth
  /\ FetchCount >= 3

\* unprocessed crawl_seen rows, at the start of a depth upgrade, whose depth
\* lies between the previous and the new limit
UpgradeTargets == {row[1] : row \in {x \in startUnproc : prev.depth <= x[2] /\ x[2] < depth}}

\* C7 (as stated): after a completed crawl, an invocation with a larger depth
\* fetches every unprocessed seen wrestler between the two limits and fetches
\* no wrestler the earlier invocation fetched, the seed included.
UpgradeRefetchesNothing ==
  (pc = "done" /\ UpgradeRerun) =>
     /\ UpgradeTargets \subseteq Fetched
     /\ Fetched \cap prev.fetched = {}

\* C7 (amended): as stated, except that the seed is fetched again.
UpgradeRefetchesSeedOnly ==
  (pc = "done" /\ UpgradeRerun) =>
     /\ UpgradeTargets \subseteq Fetched
     /\ seed_id \in Fetched
     /\ (Fetched \cap prev.fetched) \subseteq {seed_id}

\* C7 witness: a depth upgrade has completed and fetched a wrestler that the
\* earlier invocation had left unprocessed at its depth limit.
UpgradeWitness ==
  /\ pc = "done" /\ UpgradeRerun
  /\ Cardinality(prev.fetched) >= 2
  /\ UpgradeTargets \ {seed_id} # {}
  /\ (UpgradeTargets \ {seed_id}) \subseteq Fetched

\* C8 (as stated): when a crawl has returned, the seed's recorded depth is 0,
\* and every opponent o of a wrestler fetched at depth d is recorded at a
\* depth <= d + 1.
DepthIsMinimumObserved ==
  pc = "done" =>
     /\ dbSeen[seed_id] = 0
     /\ \A w \in Fetched : \A o \in graph[w] :
           dbSeen[o] # NoDepth /\ dbSeen[o] <= fetchDepth[w] + 1

\* C9 (as stated): every wrestler with a crawl_queue row has a crawl_seen row.
QueueWithinSeen == Ids(dbQueue) \subseteq SeenRows(dbSeen)


\* the step in which download_matches raises
AbortStep == pc = "loop" /\ pc' = "aborted"

\* the failed step writes no crawl_queue row and no crawl_seen row (depth or
\* processed_at), and leaves the failed wrestler at the head of the frontier
AbortStepKeepsRows ==
  AbortStep =>
     /\ dbQueue' = dbQueue /\ dbSeen' = dbSeen /\ dbProcessed' = dbProcessed
     /\ queue' = queue /\ processed' = processed

\* after the abort the failed wrestler has its crawl_queue row and the
\* invocation has not marked it processed
AbortedHeadKept ==
  pc = "aborted" =>
     /\ queue # <<>>
     /\ Head(queue)[1] \in Ids(dbQueue)
     /\ Head(queue)[1] \notin processed

\* the next invocation (same seed and depth, no reset) enters its loop with
\* the whole persisted frontier in the deque, the failed wrestler unprocessed,
\* and has fetched the failed wrestler when it returns
ResumeContinues ==
  ResumeAfterFail =>
     /\ (pc = "loop" /\ atEntry) =>
           /\ prev.queueIds \subseteq Ids(queue)
           /\ prev.failed \notin processed
     /\ pc = "done" => prev.failed \in Fetched

\* C10: a failed fetch of the head wrestler w aborts the crawl with w still
\* in crawl_queue, w not marked processed and no crawl_queue or crawl_seen
\* row changed by the failed step; the next invocation with the same seed and
\* depth and no reset fetches w again and continues with the persisted
\* frontier.
FailedFetchResumes ==
  /\ [](AbortedHeadKept /\ ResumeContinues)
  /\ [][AbortStepKeepsRows]_vars

\* C10 witness: an invocation resumed after a failed fetch of a wrestler other
\* than the seed has returned, having fetched that wrestler, with a second
\* wrestler taken over from the persisted frontier.
FailedFetchWitness ==
  /\ pc = "done" /\ ResumeAfterFail
  /\ prev.failed # seed_id
  /\ prev.failed \in Fetched
  /\ Cardinality(prev.queueIds) >= 2

\* the invocation names a seed other than the stored one (no reset in between)
SeedChanged == prev.valid /\ ~reset /\ prev.seed # seed_id

\* C11 (as stated): when crawl is invoked with a seed different from the stored
\* one, no crawl_queue row, crawl_seen row or in-memory seen/processed entry
\* of the old seed's crawl is left when the main loop starts.
SeedChangeReplacesAll ==
  (pc = "loop" /\ atEntry /\ SeedChanged) =>
     /\ Ids(dbQueue) \subseteq {seed_id}
     /\ SeenRows(dbSeen) \subseteq {seed_id}
     /\ seen = {}
     /\ processed = {}

\* ======================================================================
\* Match ingestion: download_util.update_db over one JSON:API page and the
\* create_* helpers of db.py.  A page is [included, data]; a document of
\* `included` is [id, type, key, name, teamId, startDateTime] where key is
\* identityPersonId (wrestler) or identityTeamId (team) and NoId is JSON null.
\* ======================================================================
MaxRequests == 3

Doc(id, type, key, name, teamId, start) ==
  [id |-> id, type |-> type, key |-> key, name |-> name, teamId |-> teamId,
   startDateTime |-> start]

NoDoc == Doc(NoId, "", NoId, "", NoId, 0)

\* `included` of a page: a team, a dated event, the wrestlers S, A and B and
\* the weight classes 138, HWT and one without a name
IncA ==
  << Doc("dT", "team", "t1", "Club", NoId, 0),
     Doc("dE", "event", NoId, "Open", NoId, 1),
     Doc("dS", "wrestler", "S", "Sam S", "dT", 0),
     Doc("dA", "wrestler", "A", "Al A", "dT", 0),
     Doc("dB", "wrestler", "B", "Bo B", NoId, 0),
     Doc("dW", "weightClass", NoId, "138", NoId, 0),
     Doc("dH", "weightClass", NoId, "HWT", NoId, 0),
     Doc("dW0", "weightClass", NoId, "", NoId, 0) >>

\* `included` of a later page: A under another name and without team, and a
\* wrestler whose identityPersonId is null
IncB ==
  << Doc("dT", "team", "t1", "Club", NoId, 0),
     Doc("dS", "wrestler", "S", "Sam S", "dT", 0),
     Doc("dA", "wrestler", "A", "Alan A", NoId, 0),
     Doc("dX", "wrestler", NoId, "Xi X", NoId, 0),
     Doc("dW", "weightClass", NoId, "138", NoId, 0) >>

Bout(id, winType, top, bottom, weight, winner, go) ==
  [id |-> id, winType |-> winType, topWrestlerId |-> top, bottomWrestlerId |-> bottom,
   weightClassId |-> weight, winnerWrestlerId |-> winner, eventId |-> "dE",
   goDateTime |-> go]

\* the pages the API answers with: a decided bout; byes only; a bye and a
\* bout between two other wrestlers; a bout whose id was seen before with
\* other fields, one against the wrestler without identity and one without
\* any date, its own or an event's; a bout whose bottom wrestler is not
\* included, one without weight-class name and one that has only its event's
\* date
Pages ==
  { [included |-> IncA, data |-> <<Bout("m1", "DEC", "dS", "dA", "dW", "dS", 2)>>],
    [included |-> IncA, data |-> <<Bout("m3", "BYE", "dS", "dA", "dW", "dS", 2),
                                   Bout("m4", "BYE", "dB", "dS", "dH", "dB", 3)>>],
    [included |-> IncA, data |-> <<Bout("m3", "BYE", "dS", "dA", "dW", "dS", 2),
                                   Bout("m2", "DEC", "dA", "dB", "dH", "dB", 3)>>],
    [included |-> IncB, data |-> <<Bout("m1", "FALL", "dS", "dA", "dW", "dA", 2),
                                   Bout("m6", "DEC", "dS", "dX", "dW", "dS", 2),
                                   Bout("m9", "DEC", "dA", "dS", "dW", "dA", 0)>>],
    [included |-> IncA, data |-> <<Bout("m5", "DEC", "dS", "dZ", "dW", "dS", 2),
                                   Bout("m7", "DEC", "dB", "dS", "dW0", "dB", 2),
                                   Bout("m8", "DEC", "dS", "dB", "dW", "dB", 0)>>] }

Filters ==
  { NoFilter,
    [allowed_weights |-> {"hwt"}, start_date |-> 0, end_date |-> 0],
    [allowed_weights |-> {"138"}, start_date |-> 2, end_date |-> 0],
    [allowed_weights |-> {}, start_date |-> 0, end_date |-> 2] }

Statuses == {429, 500}

\* the URLs of the endpoint: FirstUrl is the one download_matches builds with
\* offset 0 (line 197), the other one a later page
FirstUrl == "u0"
Urls == {FirstUrl, "u1"}
Links == Urls \cup {NoLink}

\* mutant of Continues: a link back to the page just fetched is followed too
ContinuesIfLinked(next, url) == next # NoLink

\* download_matches, line 223: the guard of the paging loop
Continues(next, url) == next # NoLink /\ next # url

HasId(t, id) == \E i \in 1..Len(t) : t[i].id = id

\* db.create_team
CreateTeam(t, id, name) ==
  IF id # NoId /\ HasId(t, id) THEN t
  ELSE IF id = NoId \/ name = NoId THEN t
  ELSE Append(t, [id |-> id, name |-> name])

\* db.create_event
CreateEvent(t, id, name) ==
  IF HasId(t, id) THEN t ELSE Append(t, [id |-> id, name |-> name])

\* db.create_wrestler: "WHERE id = ?" matches no row when the id is NULL, and
\* a TEXT primary key takes NULL, so a wrestler without identityPersonId is
\* inserted whenever it is seen
CreateWrestler(t, id, name, team_id) ==
  IF id # NoId /\ HasId(t, id) THEN t
  ELSE Append(t, [id |-> id, name |-> name, team_id |-> team_id])

\* db.create_match
CreateMatch(t, row) ==
  IF row.topWrestler_id = NoId \/ row.bottomWrestler_id = NoId THEN t
  ELSE IF HasId(t, row.id) THEN t
  ELSE Append(t, row)

\* db.mark_fetch (the stored date is left out)
MarkFetch(f, id) == f \cup {id}

\* lookup[obj["id"]] = obj over `included`: the last document with the id
Lookup(inc, id) ==
  IF id # NoId /\ \E i \in 1..Len(inc) : inc[i].id = id
  THEN inc[CHOOSE i \in 1..Len(inc) :
             inc[i].id = id /\ \A j \in (i + 1)..Len(inc) : inc[j].id # id]
  ELSE NoDoc

\* str.lower on the weight-class names of the pages
Lower(s) == IF s = "HWT" THEN "hwt" ELSE s

\* _resolve_match_timestamp / _extract_match_date: the bout's own time, else
\* the first dated event document of the page that the bout refers to
ExtractMatchDate(page, match) ==
  IF match.goDateTime # 0 THEN match.goDateTime
  ELSE LET inc == page.included
           ok(i) == /\ inc[i].type = "event"
                    /\ (match.eventId = NoId \/ inc[i].id = match.eventId)
                    /\ inc[i].startDateTime # 0
       IN IF \E i \in 1..Len(inc) : ok(i)
          THEN inc[CHOOSE i \in 1..Len(inc) : ok(i) /\ \A j \in 1..(i - 1) : ~ok(j)].startDateTime
          ELSE 0

\* mutant of IsDateAllowed: the start bound is exclusive
IsDateAllowedAfter(match_date, start_date, end_date) ==
  IF match_date = 0 THEN start_date = 0 /\ end_date = 0
  ELSE IF start_date # 0 /\ match_date <= start_date THEN FALSE
  ELSE IF end_date # 0 /\ match_date > end_date THEN FALSE
  ELSE TRUE

\* _is_date_allowed, 0 standing for None
IsDateAllowed(match_date, start_date, end_date) ==
  IF match_date = 0 THEN start_date = 0 /\ end_date = 0
  ELSE IF start_date # 0 /\ match_date < start_date THEN FALSE
  ELSE IF end_date # 0 /\ match_date > end_date THEN FALSE
  ELSE TRUE

\* mutant of IsBye: byes are ingested like any other bout
NeverBye(match) == FALSE

\* update_db, lines 146-147
IsBye(match) == match.winType = "BYE"

\* update_db, lines 130-135: teams and events of `included`
RECURSIVE IncludedPass(_, _, _)
IncludedPass(t, inc, i) ==
  IF i > Len(inc) THEN t
  ELSE LET obj == inc[i]
           t1 == IF obj.type = "team"
                 THEN [t EXCEPT !.teams = CreateTeam(@, obj.key, obj.name)]
                 ELSE IF obj.type = "event"
                 THEN [t EXCEPT !.events = CreateEvent(@, obj.id, obj.name)]
                 ELSE t
       IN IncludedPass(t1, inc, i + 1)

\* update_db, lines 137-143: wrestlers of `included`
RECURSIVE WrestlerPass(_, _, _)
WrestlerPass(t, inc, i) ==
  IF i > Len(inc) THEN t
  ELSE LET obj == inc[i]
           t1 == IF obj.type = "wrestler"
                 THEN [t EXCEPT !.wrestlers =
                         CreateWrestler(@, obj.key, obj.name, Lookup(inc, obj.teamId).key)]
                 ELSE t
       IN WrestlerPass(t1, inc, i + 1)

\* update_db, lines 148-169: the bout passes every skip after the BYE test
Survives(page, match, f) ==
  LET top_wrestler == Lookup(page.included, match.topWrestlerId)
      bottom_wrestler == Lookup(page.included, match.bottomWrestlerId)
      weight_class_name == Lookup(page.included, match.weightClassId).name
  IN /\ top_wrestler # NoDoc /\ bottom_wrestler # NoDoc
     /\ top_wrestler.key # NoId /\ bottom_wrestler.key # NoId
     /\ weight_class_name # ""
     /\ (f.allowed_weights = {} \/ Lower(weight_class_name) \in f.allowed_weights)
     /\ IsDateAllowed(ExtractMatchDate(page, match), f.start_date, f.end_date)

\* update_db, lines 170-189: the row create_match is called with
MatchRow(page, match) ==
  LET top_wrestler == Lookup(page.included, match.topWrestlerId)
      bottom_wrestler == Lookup(page.included, match.bottomWrestlerId)
      winner_wrestler == IF match.winnerWrestlerId = top_wrestler.id
                         THEN top_wrestler ELSE bottom_wrestler
  IN [id |-> match.id, topWrestler_id |-> top_wrestler.key,
      bottomWrestler_id |-> bottom_wrestler.key, winner_id |-> winner_wrestler.key,
      weightClass |-> Lookup(page.included, match.weightClassId).name,
      winType |-> match.winType]

\* update_db, line 170
OpponentId(row, this_id) ==
  IF row.topWrestler_id # this_id THEN row.topWrestler_id ELSE row.bottomWrestler_id

\* update_db, lines 145-189: the loop over the bouts of the page
RECURSIVE MatchPass(_, _, _, _, _, _)
MatchPass(m, opp, page, this_id, f, i) ==
  IF i > Len(page.data) THEN [matches |-> m, opp |-> opp]
  ELSE LET match == page.data[i] IN
       IF IsBye(match) \/ ~Survives(page, match, f)
       THEN MatchPass(m, opp, page, this_id, f, i + 1)
       ELSE LET row == MatchRow(page, match) IN
            MatchPass(IF row.winner_id = NoId THEN m ELSE CreateMatch(m, row),
                      opp \cup {OpponentId(row, this_id)}, page, this_id, f, i + 1)

\* update_db
UpdateDb(page, this_id, f, t) ==
  LET t1 == IncludedPass(t, page.included, 1)
      t2 == WrestlerPass(t1, page.included, 1)
      r == MatchPass(t2.matches, {}, page, this_id, f, 1)
  IN [tables |-> [t2 EXCEPT !.matches = r.matches, !.fetched = MarkFetch(@, this_id)],
      opp |-> r.opp]

\* download_matches, lines 211-215: the message of a failed first request
ErrorFirst(status) == [status |-> status, body |-> TRUE, rates |-> TRUE]

\* download_matches, lines 232-236: the message of a failed later request
ErrorNext(status) == [status |-> status, body |-> FALSE, rates |-> TRUE]

InitIngest ==
  /\ CrawlInit /\ graph = Fixture
  /\ PersistIdle
  /\ GlickoIdle
  /\ WeightIdle
  /\ TrackerIdle
  /\ tables = NoTables
  /\ filt \in Filters
  /\ dpc = "idle"
  /\ dlId = NoId
  /\ opponents = {}
  /\ derr = NoError
  /\ reqs = 0 /\ dlReqs = 0
  /\ marked = FALSE
  /\ lastApp = NoApp /\ prevApp = NoApp
  /\ cur = NoLink /\ links_next = NoLink /\ dlPages = 0

\* download_matches is called (crawl, line 367)
DlStart(id) ==
  /\ dpc \in {"idle", "done", "failed"}
  /\ reqs < MaxRequests
  /\ dpc' = "first"
  /\ dlId' = id
  /\ opponents' = {}
  /\ derr' = NoError
  /\ dlReqs' = 0
  /\ marked' = FALSE
  /\ cur' = FirstUrl /\ links_next' = NoLink /\ dlPages' = 0
  /\ UNCHANGED <<notIngest, tables, filt, reqs, lastApp, prevApp>>

\* lines 209-221 and 224-240: the request of cur (the first URL, or the next
\* link of the page before) is answered by a page whose links.next is next,
\* and update_db ingests the page
RequestOk(page, next) ==
  /\ dpc \in {"first", "next"}
  /\ reqs < MaxRequests
  /\ cur' = IF dpc = "first" THEN cur ELSE links_next
  /\ links_next' = next
  /\ dlPages' = dlPages + 1
  /\ LET r == UpdateDb(page, dlId, filt, tables) IN
       /\ tables' = r.tables
       /\ opponents' = opponents \cup r.opp
       /\ prevApp' = lastApp
       /\ lastApp' = [valid |-> TRUE, id |-> dlId, page |-> page, opp |-> r.opp,
                      before |-> tables, after |-> r.tables]
  /\ marked' = TRUE
  /\ reqs' = reqs + 1 /\ dlReqs' = dlReqs + 1
  /\ dpc' = IF Continues(next, cur') THEN "next" ELSE "done"
  /\ UNCHANGED <<notIngest, filt, dlId, derr>>

\* lines 210-216 and 231-237: a non-200 response
RequestFail(status) ==
  /\ dpc \in {"first", "next"}
  /\ reqs < MaxRequests
  /\ derr' = IF dpc = "first" THEN ErrorFirst(status) ELSE ErrorNext(status)
  /\ dpc' = "failed"
  /\ reqs' = reqs + 1 /\ dlReqs' = dlReqs + 1
  /\ cur' = IF dpc = "first" THEN cur ELSE links_next
  /\ UNCHANGED <<notIngest, tables, filt, dlId, opponents, marked, lastApp, prevApp,
                 links_next, dlPages>>

NextIngest ==
  \/ \E id \in Seeds : DlStart(id)
  \/ \E page \in Pages, next \in Links : RequestOk(page, next)
  \/ \E status \in Statuses : RequestFail(status)

SpecIngest == InitIngest /\ [][NextIngest]_vars

\* ------------------------------------------------------------ claims C12-C15
AllBye(page) ==
  page.data # <<>> /\ \A i \in 1..Len(page.data) : page.data[i].winType = "BYE"

\* C12: no sequence of ingested pages leaves a matches row whose winType is
\* "BYE", and update_db on a page whose bouts are all byes returns an empty
\* opponent set and inserts no matches row.
NoByeRows ==
  /\ \A i \in 1..Len(tables.matches) : tables.matches[i].winType # "BYE"
  /\ (lastApp.valid /\ AllBye(lastApp.page)) =>
        /\ lastApp.opp = {}
        /\ lastApp.after.matches = lastApp.before.matches

\* an all-bye page was ingested by a download whose filters let its bouts
\* through, after a page that did insert a row
NoByeRowsWitness ==
  /\ lastApp.valid /\ AllBye(lastApp.page)
  /\ \A i \in 1..Len(lastApp.page.data) : Survives(lastApp.page, lastApp.page.data[i], filt)
  /\ tables.matches # <<>>

\* update_db was applied twice in a row to the same page for the same wrestler
\* (the filters are those of the run)
AppliedTwice ==
  /\ lastApp.valid /\ prevApp.valid
  /\ lastApp.page = prevApp.page /\ lastApp.id = prevApp.id

Rows(t) == <<t.wrestlers, t.teams, t.events, t.matches>>

\* C13: applying update_db twice to the same page with the same this_id and
\* filters leaves the wrestlers, teams, events and matches tables as they were
\* after the first application and returns the same opponent set both times.
UpdateDbIdempotent ==
  AppliedTwice =>
     /\ Rows(lastApp.after) = Rows(prevApp.after)
     /\ lastApp.opp = prevApp.opp

\* C14: the fetch mark of a wrestler is written only after all of that
\* wrestler's pages were fetched and ingested: while a further page is still
\* to be requested, and when the request for a later page has failed, the
\* download has not called mark_fetch.
FetchMarkAfterAllPages ==
  (dpc = "next" \/ (dpc = "failed" /\ dlReqs > 1)) => ~marked

\* C15: a non-200 response on the first or on a later page raises an error
\* that carries the HTTP status, the response body and the tracker's request
\* counts.
ErrorCarriesAll ==
  dpc = "failed" => derr.status \in Statuses /\ derr.body /\ derr.rates

\* ======================================================================
\* RequestTracker (download_util.py), with time in whole seconds
\* ======================================================================
MaxTime == 1020
MaxRecords == 3
Minute == 60
QuarterHour == 900
TickSteps == {60, 900}

\* RequestTracker.cleanup: timestamps older than the cutoff leave from the left
RECURSIVE Cleanup(_, _)
Cleanup(times, current_time) ==
  IF times # <<>> /\ Head(times) < current_time - QuarterHour
  THEN Cleanup(Tail(times), current_time)
  ELSE times

\* RequestTracker.requests_per_minute
RequestsPerMinute ==
  IF request_times = <<>> THEN 0
  ELSE Cardinality({i \in 1..Len(request_times) : request_times[i] >= now - Minute})

\* RequestTracker.requests_per_15_minutes
RequestsPer15Minutes == Len(request_times)

InitTracker ==
  /\ CrawlInit /\ graph = Fixture
  /\ PersistIdle
  /\ GlickoIdle
  /\ WeightIdle
  /\ IngestIdle
  /\ now = 0 /\ request_times = <<>> /\ sent = <<>>

\* time passes
Tick(d) ==
  /\ now + d <= MaxTime
  /\ now' = now + d
  /\ UNCHANGED <<notTracker, request_times, sent>>

\* download_matches, lines 206-209 and 227-230: record_request, then the request
RecordRequest ==
  /\ Len(sent) < MaxRecords
  /\ request_times' = Cleanup(Append(request_times, now), now)
  /\ sent' = Append(sent, now)
  /\ UNCHANGED <<notTracker, now>>

NextTracker ==
  \/ \E d \in TickSteps : Tick(d)
  \/ RecordRequest

SpecTracker == InitTracker /\ [][NextTracker]_vars

\* ---------------------------------------------------------------- claim C16
SentWithin(window) == Cardinality({i \in 1..Len(sent) : sent[i] >= now - window})

\* C16: at any time requests_per_15_minutes() is the number of requests sent
\* within the last 900 s and requests_per_minute() the number sent within the
\* last 60 s, however long ago the last record_request was.
TrackerCountsExact ==
  /\ RequestsPer15Minutes = SentWithin(QuarterHour)
  /\ RequestsPerMinute = SentWithin(Minute)

\* ======================================================================
\* rating.normalize_weight_label.  A string is the sequence of its characters.
\* ======================================================================
MaxLabelLen == 4

Digits == {"0", "1", "2", "3", "4", "5", "6", "7", "8", "9"}
LabelChars == {"0", "5", ".", " "}

L138     == <<"1", "3", "8">>
L1255lbs == <<"1", "2", "5", ".", "5", " ", "l", "b", "s">>
L1255    == <<"1", "2", "5", ".", "5">>
L113kg   == <<"1", "1", "3", " ", "k", "g">>
L113     == <<"1", "1", "3">>
LDot5    == <<".", "5">>
L0Dot5   == <<"0", ".", "5">>
L9       == <<"9">>

RECURSIVE SeqsUpTo(_, _)
SeqsUpTo(S, n) ==
  IF n = 0 THEN {<<>>}
  ELSE LET shorter == SeqsUpTo(S, n - 1)
       IN shorter \cup {Append(s, c) : s \in {x \in shorter : Len(x) = n - 1}, c \in S}

Labels == SeqsUpTo(LabelChars, MaxLabelLen) \cup {L138, L1255lbs, L113kg, LDot5, L9}

\* the end of the run of digits that starts at position i
RECURSIVE DigitRunEnd(_, _)
DigitRunEnd(s, i) ==
  IF i + 1 <= Len(s) /\ s[i + 1] \in Digits THEN DigitRunEnd(s, i + 1) ELSE i

\* date_regex.findall: the leftmost matches of \d+(?:\.\d+)? from position i on
RECURSIVE Findall(_, _)
Findall(s, i) ==
  IF i > Len(s) THEN <<>>
  ELSE IF s[i] \notin Digits THEN Findall(s, i + 1)
  ELSE LET j == DigitRunEnd(s, i)
           k == IF j + 2 <= Len(s) /\ s[j + 1] = "." /\ s[j + 2] \in Digits
                THEN DigitRunEnd(s, j + 2) ELSE j
       IN <<SubSeq(s, i, k)>> \o Findall(s, k + 1)

\* token.replace(".", "")
DigitsOnly(token) == SelectSeq(token, LAMBDA c : c # ".")

\* mutant of TooFewDigits: a single digit is enough
NoDigits(token) == Len(DigitsOnly(token)) < 1

\* lines 132-134: the token is skipped
TooFewDigits(token) == Len(DigitsOnly(token)) < 2

\* str.lstrip("0")
RECURSIVE LStripZeros(_)
LStripZeros(s) == IF s # <<>> /\ Head(s) = "0" THEN LStripZeros(Tail(s)) ELSE s

\* lines 135-139: a token with a fractional part
CleanFraction(token) ==
  LET cleaned == LStripZeros(token)
      prefixed == IF cleaned # <<>> /\ Head(cleaned) = "." THEN <<"0">> \o cleaned ELSE cleaned
  IN IF prefixed = <<>> THEN <<"0">> ELSE prefixed

\* str(int(token)) for a token of digits
StrInt(token) ==
  LET stripped == LStripZeros(token) IN IF stripped = <<>> THEN <<"0">> ELSE stripped

\* lines 131-141: the loop over the tokens
RECURSIVE FirstLabel(_, _)
FirstLabel(tokens, i) ==
  IF i > Len(tokens) THEN NoLabel
  ELSE LET token == tokens[i] IN
       IF TooFewDigits(token) THEN FirstLabel(tokens, i + 1)
       ELSE IF \E n \in 1..Len(token) : token[n] = "."
       THEN [some |-> TRUE, label |-> CleanFraction(token)]
       ELSE [some |-> TRUE, label |-> StrInt(token)]

\* normalize_weight_label
NormalizeWeightLabel(label) ==
  IF label = <<>> THEN NoLabel ELSE FirstLabel(Findall(label, 1), 1)

InitWeight ==
  /\ CrawlInit /\ graph = Fixture
  /\ PersistIdle
  /\ GlickoIdle
  /\ IngestIdle /\ TrackerIdle
  /\ raw_label \in Labels
  /\ normalized = NoLabel
  /\ wpc = "call"

Normalize ==
  /\ wpc = "call"
  /\ normalized' = NormalizeWeightLabel(raw_label)
  /\ wpc' = "return"
  /\ UNCHANGED <<notWeight, raw_label>>

NextWeight == Normalize

SpecWeight == InitWeight /\ [][NextWeight]_vars

\* ---------------------------------------------------------------- claim C17
Returned(label) == wpc = "return" /\ raw_label = label
Label(l) == [some |-> TRUE, label |-> l]
IsZeros(s) == \A i \in 1..Len(s) : s[i] = "0"

\* the examples, with the result for ".5" left open
WeightExamples(forDot5) ==
  /\ Returned(L138) => normalized = Label(L138)
  /\ Returned(L1255lbs) => normalized = Label(L1255)
  /\ Returned(L113kg) => normalized = Label(L113)
  /\ Returned(LDot5) => normalized = forDot5
  /\ Returned(<<>>) => normalized = NoLabel
  /\ Returned(L9) => normalized = NoLabel

\* the returned label is the first token (digits, optionally '.' and digits)
\* with at least two digits, its leading zeros stripped: an integer token by
\* its value, a fractional one with '0' put before a leading '.'
FirstTokenRule ==
  wpc = "return" =>
    LET tokens == Findall(raw_label, 1)
        eligible == {k \in 1..Len(tokens) : Len(DigitsOnly(tokens[k])) >= 2}
    IN IF eligible = {} THEN normalized = NoLabel
       ELSE LET token == tokens[CHOOSE k \in eligible : \A j \in eligible : k <= j]
            IN /\ normalized.some
               /\ \E n \in 0..Len(token) :
                    LET rest == SubSeq(token, n + 1, Len(token)) IN
                    /\ IsZeros(SubSeq(token, 1, n))
                    /\ IF \E i \in 1..Len(token) : token[i] = "."
                       THEN /\ rest[1] # "0"
                            /\ normalized.label = IF rest[1] = "." THEN <<"0">> \o rest ELSE rest
                       ELSE \/ rest = <<>> /\ normalized.label = <<"0">>
                            \/ rest # <<>> /\ rest[1] # "0" /\ normalized.label = rest

\* C17 (as stated): "138" -> "138", "125.5 lbs" -> "125.5", "113 kg" -> "113",
\* ".5" -> "0.5", "" and "9" dropped, and in general the first numeric token
\* with at least two digits, zeros stripped, a leading '.' prefixed with '0'.
NormalizesAsStated == WeightExamples(Label(L0Dot5)) /\ FirstTokenRule

\* C17 (amended): as stated, except that ".5" is dropped (its only token is the
\* single digit "5"), while "0.5" maps to "0.5".
NormalizesDroppingDot5 ==
  /\ WeightExamples(NoLabel)
  /\ Returned(L0Dot5) => normalized = Label(L0Dot5)
  /\ FirstTokenRule

\* ".5" was normalized and dropped
NormalizesWitness == Returned(LDot5) /\ normalized = NoLabel

\* ======================================================================
\* rating.run_glicko: one (period, weight class) step.
\* Ratings and deviations are whole rating points, volatilities hundredths.
\* The Glicko-2 formulas (g, E, the volatility iteration, the square roots)
\* are replaced by integer stand-ins of the same arguments; what is kept is
\* which values each computation reads, the order in which the pairings of a
\* wrestler are summed, and that a floating-point sum is rounded (Fl).
\* ======================================================================
MaxMatches == 3
StepPeriod == 2
Precision == 3
DefaultRating == 1500
DefaultRd == 350
DefaultVolatility == 6
MaxRd == 350

Pairs == {<<w, l>> : w \in GWrestlers, l \in GWrestlers} \ {<<w, w>> : w \in GWrestlers}

MatchLists == SeqsUpTo(Pairs, MaxMatches) \ {<<>>}

Known(rating, rd, last) ==
  [present |-> TRUE, rating |-> rating, rd |-> rd, volatility |-> DefaultVolatility,
   last_period_index |-> last, last_competed_period |-> last, matches_played |-> 1]

\* weight_states before the step: nobody rated yet, or some wrestlers rated
\* in an earlier period
PriorStates ==
  { [w \in GWrestlers |-> NoGState],
    [w \in GWrestlers |-> IF w = "A" THEN Known(1600, 200, 0) ELSE NoGState],
    [w \in GWrestlers |-> IF w = "A" THEN Known(1400, 300, 1)
                          ELSE IF w = "B" THEN Known(1500, 100, 0) ELSE NoGState] }

Min(a, b) == IF a < b THEN a ELSE b
Abs(x) == IF x < 0 THEN -x ELSE x

\* the spacing of the floating-point numbers around a magnitude m
RECURSIVE Ulp(_)
Ulp(m) == IF m < 2 ^ Precision THEN 1 ELSE 2 * Ulp(m \div 2)

\* rounding to the nearest representable number, ties to even
Fl(x) ==
  LET m == Abs(x)
      step == Ulp(m)
      q == m \div step
      r == m % step
      up == 2 * r > step \/ (2 * r = step /\ q % 2 = 1)
      rounded == IF up THEN (q + 1) * step ELSE q * step
  IN IF x < 0 THEN -rounded ELSE rounded

\* a += b on two floats
FAdd(a, b) == Fl(a + b)

\* ensure_state
EnsureState(st, w, period_idx) ==
  IF st[w].present THEN st
  ELSE [st EXCEPT ![w] = [present |-> TRUE, rating |-> DefaultRating, rd |-> DefaultRd,
                          volatility |-> DefaultVolatility, last_period_index |-> period_idx,
                          last_competed_period |-> -1, matches_played |-> 0]]

\* apply_inactivity (phi grows with the idle periods and the volatility)
ApplyInactivity(state, target_period) ==
  IF target_period <= state.last_period_index THEN state
  ELSE LET delta == target_period - state.last_period_index
       IN [state EXCEPT !.rd = Min(state.rd + delta * state.volatility, MaxRd),
                        !.last_period_index = target_period]

\* build_snapshot
BuildSnapshot(state) ==
  [present |-> TRUE, rating |-> state.rating, rd |-> state.rd,
   volatility |-> state.volatility, mu |-> state.rating - DefaultRating, phi |-> state.rd]

\* glicko_g, in quarters: smaller for a larger deviation
GlickoG(phi) == 4 - phi \div 100

\* glicko_E, in quarters of a full score
GlickoE(mu, mu_j, phi_j) ==
  LET x == GlickoG(phi_j) * (mu - mu_j)
  IN IF x > 0 THEN 3 ELSE IF x < 0 THEN 1 ELSE 2

\* update_player, lines 357-362: the sums over the pairings, in list order
RECURSIVE Accumulate(_, _, _, _, _, _)
Accumulate(pairings, i, mu, opps, v_inv, delta_sum) ==
  IF i > Len(pairings) THEN [v_inv |-> v_inv, delta_sum |-> delta_sum]
  ELSE LET opp == opps[pairings[i][1]]
           score == pairings[i][2]
           g == GlickoG(opp.phi)
           E_val == GlickoE(mu, opp.mu, opp.phi)
       IN Accumulate(pairings, i + 1, mu, opps,
                     FAdd(v_inv, Fl(g * g * E_val * (4 - E_val))),
                     FAdd(delta_sum, Fl(g * (4 * score - E_val))))

\* update_volatility: larger when the surprise exceeds what phi and v explain
UpdateVolatility(phi, sigma, delta, v) ==
  IF delta * delta > phi * phi + v THEN sigma + 1 ELSE sigma

\* update_player
UpdatePlayer(snapshot, pairings, opps) ==
  LET unchanged == [present |-> TRUE, rating |-> snapshot.rating, rd |-> snapshot.rd,
                    volatility |-> snapshot.volatility]
      acc == Accumulate(pairings, 1, snapshot.mu, opps, 0, 0)
  IN IF pairings = <<>> \/ acc.v_inv = 0 THEN unchanged
     ELSE LET v == 6400 \div acc.v_inv
              delta == v * acc.delta_sum
              new_sigma == UpdateVolatility(snapshot.phi, snapshot.volatility, delta, v)
              phi_star == snapshot.phi + new_sigma
              phi_prime == (phi_star * v) \div (phi_star + v) + 1
              mu_prime == snapshot.mu + (phi_prime * acc.delta_sum) \div 4
          IN [present |-> TRUE, rating |-> mu_prime + DefaultRating,
              rd |-> Min(phi_prime, MaxRd), volatility |-> new_sigma]

\* mutant of OpponentSnapshots: an opponent already updated in this step is
\* read with its new values
UpdatedFirst(snaps, upd) ==
  [w \in GWrestlers |->
     IF upd[w].present
     THEN [present |-> TRUE, rating |-> upd[w].rating, rd |-> upd[w].rd,
           volatility |-> upd[w].volatility, mu |-> upd[w].rating - DefaultRating,
           phi |-> upd[w].rd]
     ELSE snaps[w]]

\* run_glicko, line 432: the opponents update_player is given
OpponentSnapshots(snaps, upd) == snaps

Participants == {w \in GWrestlers : per_player[w] # <<>>}

InitGlicko ==
  /\ CrawlInit /\ graph = Fixture
  /\ PersistIdle
  /\ IngestIdle /\ TrackerIdle /\ WeightIdle
  /\ gMatches \in MatchLists
  /\ states \in PriorStates
  /\ pre = states
  /\ per_player = [w \in GWrestlers |-> <<>>]
  /\ snapshots = [w \in GWrestlers |-> NoSnapshot]
  /\ updates = [w \in GWrestlers |-> NoUpdate]
  /\ gpc = "pair"

\* lines 419-424: all matches of the step are paired, in list order
RECURSIVE PairAll(_, _, _, _)
PairAll(ms, i, st, pp) ==
  IF i > Len(ms) THEN [states |-> st, per_player |-> pp]
  ELSE LET winner_id == ms[i][1]
           loser_id == ms[i][2]
           st1 == EnsureState(EnsureState(st, winner_id, StepPeriod), loser_id, StepPeriod)
           pp1 == [pp EXCEPT ![winner_id] = Append(@, <<loser_id, 1>>)]
           pp2 == [pp1 EXCEPT ![loser_id] = Append(@, <<winner_id, 0>>)]
       IN PairAll(ms, i + 1, st1, pp2)

PairMatches ==
  /\ gpc = "pair"
  /\ LET r == PairAll(gMatches, 1, states, per_player) IN
       /\ states' = r.states
       /\ per_player' = r.per_player
  /\ gpc' = "snapshot"
  /\ UNCHANGED <<notGlicko, gMatches, snapshots, updates, pre>>

\* lines 426-430, for one wrestler; the iteration order is left open
Snapshot(w) ==
  /\ gpc = "snapshot" /\ w \in Participants /\ ~snapshots[w].present
  /\ LET state == ApplyInactivity(EnsureState(states, w, StepPeriod)[w], StepPeriod) IN
       /\ states' = [states EXCEPT ![w] = state]
       /\ snapshots' = [snapshots EXCEPT ![w] = BuildSnapshot(state)]
       /\ gpc' = IF \A x \in Participants \ {w} : snapshots[x].present
                 THEN "update" ELSE "snapshot"
  /\ UNCHANGED <<notGlicko, gMatches, per_player, updates, pre>>

\* lines 432-434, for one wrestler
Update(w) ==
  /\ gpc = "update" /\ w \in Participants /\ ~updates[w].present
  /\ updates' = [updates EXCEPT ![w] =
                   UpdatePlayer(snapshots[w], per_player[w], OpponentSnapshots(snapshots, updates))]
  /\ gpc' = IF \A x \in Participants \ {w} : updates[x].present THEN "commit" ELSE "update"
  /\ UNCHANGED <<notGlicko, gMatches, states, per_player, snapshots, pre>>

\* lines 436-443, for one wrestler
Commit(w) ==
  /\ gpc = "commit" /\ w \in Participants /\ states[w].last_competed_period # StepPeriod
  /\ states' = [states EXCEPT ![w] =
                  [present |-> TRUE, rating |-> updates[w].rating, rd |-> updates[w].rd,
                   volatility |-> updates[w].volatility, last_period_index |-> StepPeriod,
                   last_competed_period |-> StepPeriod,
                   matches_played |-> @.matches_played + Len(per_player[w])]]
  /\ gpc' = IF \A x \in Participants \ {w} : states[x].last_competed_period = StepPeriod
            THEN "done" ELSE "commit"
  /\ UNCHANGED <<notGlicko, gMatches, per_player, snapshots, updates, pre>>

NextGlicko ==
  \/ PairMatches
  \/ \E w \in GWrestlers : Snapshot(w)
  \/ \E w \in GWrestlers : Update(w)
  \/ \E w \in GWrestlers : Commit(w)

SpecGlicko == InitGlicko /\ [][NextGlicko]_vars

\* ---------------------------------------------------------------- claim C18
\* the step computed at once: every participant is updated from the snapshots
\* of all participants taken after the inactivity step
OneShot(st0, pp) ==
  LET parts == {w \in GWrestlers : pp[w] # <<>>}
      ensured(w) == EnsureState(st0, w, StepPeriod)[w]
      snaps == [w \in GWrestlers |->
                  IF w \in parts THEN BuildSnapshot(ApplyInactivity(ensured(w), StepPeriod))
                  ELSE NoSnapshot]
  IN [w \in GWrestlers |->
        IF w \notin parts THEN st0[w]
        ELSE LET updated == UpdatePlayer(snaps[w], pp[w], snaps)
             IN [present |-> TRUE, rating |-> updated.rating, rd |-> updated.rd,
                 volatility |-> updated.volatility, last_period_index |-> StepPeriod,
                 last_competed_period |-> StepPeriod,
                 matches_played |-> ensured(w).matches_played + Len(pp[w])]]

Rank(w) == CASE w = "A" -> 0 [] w = "B" -> 1 [] OTHER -> 2
PairKey(p) == 3 * Rank(p[1]) + Rank(p[2])

\* the same matches in one fixed order
RECURSIVE SortMatches(_)
SortMatches(ms) ==
  IF ms = <<>> THEN <<>>
  ELSE LET i == CHOOSE k \in 1..Len(ms) : \A j \in 1..Len(ms) : PairKey(ms[k]) <= PairKey(ms[j])
       IN <<ms[i]>> \o SortMatches(SubSeq(ms, 1, i - 1) \o SubSeq(ms, i + 1, Len(ms)))

PairingsOf(ms) ==
  PairAll(ms, 1, [w \in GWrestlers |-> NoGState], [w \in GWrestlers |-> <<>>]).per_player

MaxRows == 3

RatingKeys == << <<"A", "125">>, <<"B", "125">>, <<"A", "138">>, <<"B", "138">> >>
RatingValues == {1500, 1620}

RatingRow(key, rating) == [wrestler_id |-> key[1], weight_class |-> key[2], rating |-> rating]

\* lines 512-525: one row per wrestler entry of each weight class; a choice
\* gives each key its rating, 0 for a pair the payload does not hold
RowsOf(choice) ==
  SelectSeq([i \in 1..Len(RatingKeys) |-> RatingRow(RatingKeys[i], choice[i])],
            LAMBDA row : row.rating # 0)

Payloads ==
  {rows \in {RowsOf(c) : c \in [1..Len(RatingKeys) -> RatingValues \cup {0}]} :
     Len(rows) <= MaxRows}

OldRatings ==
  { {},
    {RatingRow(RatingKeys[1], 1480), RatingRow(RatingKeys[4], 1555)},
    {RatingRow(RatingKeys[2], 1500)} }

\* mutant of DeleteInTransaction: the DELETE is committed on its own
DeleteAutocommit(committed) == {}

\* line 510: the DELETE runs inside the transaction it opens, the committed
\* rows stay as they are
DeleteInTransaction(committed) == committed

InitPersist ==
  /\ CrawlInit /\ graph = Fixture
  /\ IngestIdle /\ TrackerIdle /\ WeightIdle /\ GlickoIdle
  /\ ratingsT \in OldRatings
  /\ before = ratingsT
  /\ payload \in Payloads
  /\ txn = {} /\ todo = <<>>
  /\ ppc = "call"

\* lines 505-525: DELETE FROM ratings, and the rows are built
DeleteRows ==
  /\ ppc = "call"
  /\ ratingsT' = DeleteInTransaction(ratingsT)
  /\ txn' = {}
  /\ todo' = payload
  /\ ppc' = "insert"
  /\ UNCHANGED <<notPersist, payload, before>>

\* lines 527-533: executemany inserts the next row
InsertRow ==
  /\ ppc = "insert" /\ todo # <<>>
  /\ txn' = txn \cup {Head(todo)}
  /\ todo' = Tail(todo)
  /\ UNCHANGED <<notPersist, ratingsT, payload, ppc, before>>

\* line 534: conn.commit()
CommitRatings ==
  /\ ppc = "insert" /\ todo = <<>>
  /\ ratingsT' = txn
  /\ ppc' = "committed"
  /\ UNCHANGED <<notPersist, txn, payload, todo, before>>

\* an exception leaves persist_ratings before the commit; main does not catch
\* it and the connection goes away with the transaction open (rolled back)
FailPersist ==
  /\ ppc \in {"call", "insert"}
  /\ txn' = {}
  /\ ppc' = "failed"
  /\ UNCHANGED <<notPersist, ratingsT, payload, todo, before>>

NextPersist ==
  \/ DeleteRows
  \/ InsertRow
  \/ CommitRatings
  \/ FailPersist

SpecPersist == InitPersist /\ [][NextPersist]_vars

\* ---------------------------------------------------------------- claim C19
PayloadRows == {payload[i] : i \in 1..Len(payload)}
PayloadKeys == {<<r.wrestler_id, r.weight_class>> : r \in PayloadRows}

\* C19: after the commit the ratings table holds exactly one row per
\* (wrestler, weight class) pair of the payload and no row from before the
\* call; until the commit, and when the call fails before it, the rows from
\* before the call remain.
RatingsReplacedAtomically ==
  /\ ppc = "committed" =>
       /\ ratingsT = PayloadRows
       /\ \A k \in PayloadKeys :
            Cardinality({r \in ratingsT : <<r.wrestler_id, r.weight_class>> = k}) = 1
       /\ \A r \in ratingsT : <<r.wrestler_id, r.weight_class>> \in PayloadKeys
  /\ ppc \in {"call", "insert", "failed"} => ratingsT = before

\* a payload of several rows replaced old rows, one of them for a pair the
\* payload does not hold
RatingsReplacedWitness ==
  /\ ppc = "committed"
  /\ Len(payload) >= 2
  /\ \E r \in before : <<r.wrestler_id, r.weight_class>> \notin PayloadKeys
  /\ \E r \in before : <<r.wrestler_id, r.weight_class>> \in PayloadKeys

\* ======================================================================
\* Further claims about the crawler (specification Spec)
\* ======================================================================
\* the head of the deque is at the depth limit or is already processed
HeadIsSkipped ==
  /\ pc = "loop" /\ queue # <<>>
  /\ (Head(queue)[2] >= depth \/ Head(queue)[1] \in processed)

\* the step taken from such a state pops the head and deletes its crawl_queue
\* row, fetches nothing and leaves Seen and Processed as they are
SkipStepOnlyPops ==
  HeadIsSkipped =>
     /\ queue' = Tail(queue)
     /\ Head(queue)[1] \notin Ids(dbQueue')
     /\ fetches' = fetches
     /\ seen' = seen /\ depths' = depths /\ dbSeen' = dbSeen
     /\ processed' = processed /\ dbProcessed' = dbProcessed

\* C21: a head entry (w, d) with d >= depth_limit, or with w already
\* processed, is popped from the deque and deleted from crawl_queue without a
\* fetch and without a change of Seen or Processed; a crawl with depth 0
\* performs no fetch at all.
SkippedHeadNotFetched ==
  /\ [][SkipStepOnlyPops]_vars
  /\ [](depth = 0 => FetchCount = 0)

\* a crawl of depth >= 1 has returned after several fetches, having dropped a
\* wrestler it saw at the depth limit without fetching it
SkippedHeadWitness ==
  /\ pc = "done" /\ depth >= 1 /\ FetchCount >= 2
  /\ \E w \in seen : depths[w] = depth /\ fetches[w] = 0 /\ w \notin Ids(dbQueue)

\* C22 (as stated): once the fetch of a wrestler has succeeded the wrestler is
\* processed in memory and in the Store (get_processed_wrestlers returns it),
\* the seed included.
FetchedIsProcessed ==
  \A w \in Fetched : w \in processed /\ w \in dbProcessed

\* the unprocessed crawl_seen rows, other than the seed's, that the start-up
\* found at a depth within the new limit
ReplenishCandidates ==
  {row \in startUnproc : row[2] <= depth /\ row[1] # seed_id}

\* C23 (as stated): when the frontier holds no wrestler other than the seed
\* after the seed-first, depth-upgrade and seed-change steps, it is
\* replenished from the unprocessed Seen entries within the new limit before
\* the main loop starts; so the loop is entered with the seed alone only when
\* there is no such entry.
ReplenishedAtStartup ==
  (pc = "loop" /\ atEntry /\ Ids(queue) \subseteq {seed_id}) => ReplenishCandidates = {}

\* ======================================================================
\* Further claims about download_matches and update_db (SpecIngest)
\* ======================================================================
\* a request is issued: the first goes to the URL built with offset 0, every
\* later one to links.next of the response before it
RequestFollowsLink ==
  (dlReqs' = dlReqs + 1) =>
     cur' = (IF dpc = "first" THEN FirstUrl ELSE links_next)

\* after download_matches has returned it requests nothing
NoRequestAfterReturn ==
  (dpc = "done" /\ dpc' # "first") => (dlReqs' = dlReqs /\ dlPages' = dlPages)

\* C24: download_matches requests the pages one at a time following
\* links.next and stops after the first response that has no next link or
\* whose next link is the URL just fetched; it makes one request per page of
\* that chain and ingests every page it receives.
PagingFollowsLinks ==
  /\ [][RequestFollowsLink /\ NoRequestAfterReturn]_vars
  /\ [](dpc = "next" => (links_next # NoLink /\ links_next # cur /\ dlPages = dlReqs))
  /\ [](dpc = "done" => ((links_next = NoLink \/ links_next = cur) /\ dlPages = dlReqs))
  /\ [](dpc = "failed" => dlPages = dlReqs - 1)

\* a download of three pages has returned: the first page linked to a second,
\* the second back to the first URL, whose next answer linked to itself
PagingWitness ==
  /\ dpc = "done" /\ dlReqs = 3 /\ dlPages = 3
  /\ cur = FirstUrl /\ links_next = cur

\* the bout passes every skip of update_db other than the date filter
PassesOtherSkips(page, match, f) ==
  LET top == Lookup(page.included, match.topWrestlerId)
      bottom == Lookup(page.included, match.bottomWrestlerId)
      name == Lookup(page.included, match.weightClassId).name
  IN /\ match.winType # "BYE"
     /\ top # NoDoc /\ bottom # NoDoc /\ top.key # NoId /\ bottom.key # NoId
     /\ name # ""
     /\ (f.allowed_weights = {} \/ Lower(name) \in f.allowed_weights)

\* the date rule as claimed: without a date only when no bound was supplied,
\* with a date d when start <= d <= end for each bound supplied
WithinBounds(d, f) ==
  IF d = 0 THEN f.start_date = 0 /\ f.end_date = 0
  ELSE /\ (f.start_date # 0 => f.start_date <= d)
       /\ (f.end_date # 0 => d <= f.end_date)

\* the bouts of the page that the claimed rule keeps
KeptBouts(page, f) ==
  {i \in 1..Len(page.data) :
     /\ PassesOtherSkips(page, page.data[i], f)
     /\ WithinBounds(ExtractMatchDate(page, page.data[i]), f)}

MatchIds(t) == {t[i].id : i \in 1..Len(t)}

\* C25: update_db keeps a bout without resolvable timestamp only when neither
\* date bound was supplied and a bout with a timestamp exactly when its date
\* lies within each supplied bound, bounds included; a dropped bout inserts
\* no matches row and adds no opponent: the opponents returned and the rows
\* inserted are those of the kept bouts.
DateFilterInclusive ==
  lastApp.valid =>
    LET page == lastApp.page
        kept == KeptBouts(page, filt)
    IN /\ lastApp.opp = {OpponentId(MatchRow(page, page.data[i]), lastApp.id) : i \in kept}
       /\ MatchIds(lastApp.after.matches) \ MatchIds(lastApp.before.matches)
            = {page.data[i].id : i \in {k \in kept : page.data[k].id \notin MatchIds(lastApp.before.matches)}}

\* under a start bound, a page was ingested that holds a bout dated on the
\* bound, which got its row, and a bout without any date, which was dropped
DateFilterWitness ==
  /\ lastApp.valid /\ filt.start_date # 0
  /\ \E i, j \in 1..Len(lastApp.page.data) :
       /\ i \in KeptBouts(lastApp.page, filt)
       /\ ExtractMatchDate(lastApp.page, lastApp.page.data[i]) = filt.start_date
       /\ lastApp.page.data[i].id \in MatchIds(lastApp.after.matches)
       /\ PassesOtherSkips(lastApp.page, lastApp.page.data[j], filt)
       /\ ExtractMatchDate(lastApp.page, lastApp.page.data[j]) = 0
       /\ lastApp.page.data[j].id \notin MatchIds(lastApp.after.matches)

\* C26: on a finite opponent graph where every fetch succeeds, every
\* invocation of crawl terminates: once in its main loop it reaches its
\* return (of seen, depths and processed).
CrawlTerminates == (pc \in {"loop", "expand"}) ~> (pc = "done")

\* a crawl over the symmetric graph has returned after fetching every
\* wrestler, the seed found again among its opponents' opponents
CrawlTerminatesWitness ==
  /\ pc = "done" /\ graph = Chain
  /\ Fetched = Wrestlers
  /\ seed_id \in seen

\* C27: within one invocation of crawl no wrestler is fetched more than once,
\* whatever the persisted frontier and Seen held at its start and whatever
\* the fetches return.
FetchedAtMostOnce == \A w \in Wrestlers : fetches[w] <= 1

\* a crawl has returned in which the seed, fetched first, was found again as
\* an opponent, enqueued a second time and then skipped
FetchedAtMostOnceWitness ==
  /\ pc = "done" /\ depth >= 2
  /\ fetches[seed_id] = 1 /\ depths[seed_id] = 2
  /\ Cardinality(Fetched) >= 2

\* no wrestler id occurs twice in the deque
NoDuplicateIds(q) == \A i, j \in 1..Len(q) : q[i][1] = q[j][1] => i = j

\* C28 (as stated): at the start of every iteration of the main loop and at
\* return, the ids that have a crawl_queue row are the ids in the deque, and
\* the deque holds each id at most once.
QueueMirrorsDeque ==
  pc \in {"loop", "done"} => (Ids(dbQueue) = Ids(queue) /\ NoDuplicateIds(queue))

\* C30 (as stated): during the main loop the depths of the deque's entries are
\* non-decreasing from front to back, in every invocation.
DequeDepthsSorted ==
  pc \in {"loop", "expand"} =>
     \A i, j \in 1..Len(queue) : i < j => queue[i][2] <= queue[j][2]

\* the invocation follows one that started from empty crawler tables and
\* stopped inside its main loop without a failed fetch: same seed and depth,
\* no reset
ResumeAfterCrash ==
  /\ prev.valid /\ prev.startEmpty /\ ~prev.completed /\ prev.failed = "" /\ ~reset
  /\ prev.seed = seed_id /\ prev.depth = depth

\* C29 (as stated): when the process stops between two Store operations and
\* crawl is invoked again with the same seed and depth and no reset until it
\* completes, every wrestler an uninterrupted crawl would have fetched (those
\* at distance < depth) has been fetched, and every wrestler it would have put
\* in Seen (those within depth hops, other than the seed) is in Seen.
CrashResumeLosesNothing ==
  (pc = "done" /\ ResumeAfterCrash) =>
     /\ Within(graph, seed_id, depth - 1) \subseteq (prev.fetched \cup Fetched)
     /\ (Within(graph, seed_id, depth) \ {seed_id}) \subseteq SeenRows(dbSeen)

====
